---- MODULE Spec2Model ----
(***************************************************************************)
(* Model of examples/test-deno-server.py: the coroutine test_deno_server   *)
(* and the __main__ block that turns its return value into an exit code.   *)
(*                                                                         *)
(* The coroutine is one sequential task.  Every `await` is a suspension    *)
(* point: the task issues a remote call and resumes when the environment   *)
(* (the hypha_rpc library and the server behind it) answers with a result  *)
(* or raises an exception.  Each action below is the code that runs        *)
(* between two suspension points; Respond is the environment's answer.     *)
(***************************************************************************)
EXTENDS Integers, Sequences, FiniteSets

VARIABLES
    pc,             \* position of the task: the await it is suspended at
    pending,        \* remote calls issued and not yet answered
    ret,            \* outcome of the await being resumed: "none", "ok", "err"
    retval,         \* the object an "ok" answer returns (None after an exception)
    server,         \* the object bound by line 27, with the fields of its config
    client_service, \* the object bound by line 78, with the fields it carries
    square_result,  \* the local bound by line 96
    outcome,        \* history: how each call site was answered
    served,         \* invocations of the registered compute_square handler
    trace,          \* history: calls issued and lines written to stdout, in order
    success,        \* return value of test_deno_server
    exit_code       \* argument of sys.exit

vars == <<pc, pending, ret, retval, server, client_service, square_result,
          outcome, served, trace, success, exit_code>>

\* Range of the arguments with which other clients invoke the public handler.
MaxN == 2

None == <<>>
Some(x) == <<x>>

\* The call sites of the script, by the expression that is awaited.
Sites == {"connect_to_server", "server.echo", "server.get_server_info",
          "server.hello", "server.get_time", "server.get_service",
          "hello_service.hello", "server.register_service",
          "client_service.compute_square"}

\* The remote calls that follow the connection.
OptionalSites == Sites \ {"connect_to_server"}

\* The fields the script reads from server.config (lines 34-35).
ConfigFields == {"workspace", "client_id"}

\* The fields the script reads from the registered service (line 93).
ServiceFields == {"id"}

\* Only the integer argument of compute_square (line 96) is kept; the string
\* and dictionary arguments of the other calls do not influence the script.
NoArgs == <<>>

Call(site, arg) == [t |-> "call", what |-> site, arg |-> arg]
Stdout(msg) == [t |-> "out", what |-> msg, arg |-> None]

\* Line 85: "compute_square": lambda n: n * n
compute_square_doubles(n) == n + n
compute_square(n) == n * n

Init ==
    /\ pc = "start"
    /\ pending = {}
    /\ ret = "none"
    /\ retval = None
    /\ server = [bound |-> FALSE, config |-> {}]
    /\ client_service = [bound |-> FALSE, fields |-> {}]
    /\ square_result = None
    /\ outcome = [s \in Sites |-> "none"]
    /\ served = {}
    /\ trace = <<>>
    /\ success = "unset"
    /\ exit_code = None


\* An `await <site>(<arg>)`: what is written to stdout on the way to it
\* (`out`), then the call is issued and the task is suspended at it.
Await(site, arg, out) ==
    /\ pending' = pending \cup {[what |-> site, arg |-> arg]}
    /\ ret' = "none"
    /\ trace' = trace \o out \o <<Call(site, arg)>>
    /\ pc' = site
    /\ UNCHANGED success

\* Lines 105-107: the handler of the outer try.
Fail(out) ==
    /\ trace' = trace \o out \o <<Stdout("failed_to_connect_or_execute")>>
    /\ success' = "False"
    /\ pc' = "returned"
    /\ ret' = "none"
    /\ UNCHANGED pending

\* Lines 102-103 and 109: the end of the outer try and the return after it.
Finish(out) ==
    /\ trace' = trace \o out
                  \o <<Stdout("all_tests_completed"), Stdout("connection_test_passed")>>
    /\ success' = "True"
    /\ pc' = "returned"
    /\ ret' = "none"
    /\ UNCHANGED pending

\* Lines 76-78: the banner of the registration step and the await of
\* server.register_service.
Register(out) ==
    Await("server.register_service", NoArgs,
          out \o <<Stdout("registering_service")>>)

\* Lines 20-31: the first banner and the await of connect_to_server.
Start ==
    /\ pc = "start"
    /\ Await("connect_to_server", NoArgs,
             <<Stdout("connecting")>>)
    /\ UNCHANGED <<retval, server, client_service, square_result, outcome,
                   served, exit_code>>

\* What an answered call returns: the fields of the object that the script
\* reads, and the integer it carries.  connect_to_server returns a server
\* object whose config has some of the fields read at lines 34-35;
\* register_service returns a service object likewise (line 93); compute_square
\* is routed by the server to the handler registered at line 85.
Results(c) ==
    CASE c.what = "connect_to_server" ->
           {[fields |-> f, value |-> None] : f \in SUBSET ConfigFields}
      [] c.what = "server.register_service" ->
           {[fields |-> f, value |-> None] : f \in SUBSET ServiceFields}
      [] c.what = "client_service.compute_square" ->
           {[fields |-> {}, value |-> Some(compute_square(c.arg[1]))]}
      [] OTHER -> {[fields |-> {}, value |-> None]}

\* The environment answers an outstanding call with a result or an exception.
Respond(c) ==
    /\ c \in pending
    /\ pending' = pending \ {c}
    /\ \E r \in {"ok", "err"} :
         /\ ret' = r
         /\ outcome' = [outcome EXCEPT ![c.what] = r]
         /\ IF r = "ok"
              THEN \E v \in Results(c) :
                     /\ retval' = Some(v)
                     /\ served' = IF c.what = "client_service.compute_square"
                                    THEN served \cup {[arg |-> c.arg[1], result |-> v.value[1]]}
                                    ELSE served
              ELSE retval' = None /\ UNCHANGED served
    /\ UNCHANGED <<pc, server, client_service, square_result, trace, success,
                   exit_code>>

\* Lines 83-85: the service is public, so while the task is suspended at
\* line 96 the event loop also serves other clients' invocations of the handler.
RemoteInvoke(n) ==
    /\ pc = "client_service.compute_square"
    /\ pending # {}
    /\ served' = served \cup {[arg |-> n, result |-> compute_square(n)]}
    /\ UNCHANGED <<pc, pending, ret, retval, server, client_service,
                   square_result, outcome, trace, success, exit_code>>

\* The task has been resumed at the await of `site`.
Resumed(site) == pc = site /\ ret # "none"

\* Lines 67-69: the fallback, entered from the handler at line 64 after it
\* has written the error of the direct path (line 65).
Fallback ==
    Await("server.get_service", NoArgs, <<Stdout("hello_service_error")>>)

AfterConnect_Timeout ==
    /\ pc = "connect_to_server"
    /\ Fail(<<>>)
    /\ UNCHANGED <<retval, server, client_service, square_result, outcome,
                   served, exit_code>>

AfterConnect_Continue ==
    /\ Resumed("connect_to_server")
    /\ server' = [bound |-> ret = "ok", config |-> ConfigFields]
    /\ Await("server.echo", NoArgs,
             <<Stdout("failed_to_connect_or_execute"), Stdout("testing_echo")>>)
    /\ UNCHANGED <<retval, client_service, square_result, outcome, served,
                   exit_code>>

\* Lines 27-40 and 105-107: the resumption after connect_to_server.  An
\* exception of the call, or of reading server.config.workspace (line 34) or
\* server.config.client_id (line 35), is caught by the outer handler.
AfterConnect ==
    /\ Resumed("connect_to_server")
    /\ IF ret = "err"
         THEN Fail(<<>>) /\ UNCHANGED server
         ELSE LET cfg == retval[1].fields IN
              /\ server' = [bound |-> TRUE, config |-> cfg]
              /\ IF "workspace" \notin cfg
                   THEN Fail(<<Stdout("connected")>>)
                   ELSE IF "client_id" \notin cfg
                     THEN Fail(<<Stdout("connected"), Stdout("workspace")>>)
                     ELSE Await("server.echo", NoArgs,
                                <<Stdout("connected"), Stdout("workspace"),
                                  Stdout("client_id"), Stdout("testing_echo")>>)
    /\ UNCHANGED <<retval, client_service, square_result, outcome, served,
                   exit_code>>

AfterEcho_Unguarded ==
    /\ Resumed("server.echo")
    /\ IF ret = "ok"
         THEN Await("server.get_server_info", NoArgs,
                    <<Stdout("echo_response"), Stdout("getting_server_info")>>)
         ELSE Fail(<<>>)
    /\ UNCHANGED <<retval, server, client_service, square_result, outcome,
                   served, exit_code>>

AfterEcho_Gather ==
    /\ Resumed("server.echo")
    /\ pending' = pending \cup {[what |-> "server.get_server_info", arg |-> NoArgs],
                                [what |-> "server.hello", arg |-> NoArgs]}
    /\ ret' = "none"
    /\ trace' = trace \o <<Call("server.get_server_info", NoArgs),
                           Call("server.hello", NoArgs)>>
    /\ pc' = "server.get_server_info"
    /\ UNCHANGED <<retval, server, client_service, square_result, outcome,
                   served, success, exit_code>>

\* Lines 40-48: the resumption after server.echo, its handler (42-43) and
\* the await of server.get_server_info.
AfterEcho ==
    /\ Resumed("server.echo")
    /\ Await("server.get_server_info", NoArgs,
             <<IF ret = "ok" THEN Stdout("echo_response") ELSE Stdout("echo_service_error"),
               Stdout("getting_server_info")>>)
    /\ UNCHANGED <<retval, server, client_service, square_result, outcome,
                   served, exit_code>>

AfterServerInfo_SkipHello ==
    /\ Resumed("server.get_server_info")
    /\ IF ret = "ok"
         THEN Await("server.hello", NoArgs,
                    <<Stdout("server_info"), Stdout("testing_hello")>>)
         ELSE Register(<<Stdout("server_info_error")>>)
    /\ UNCHANGED <<retval, server, client_service, square_result, outcome,
                   served, exit_code>>

\* Lines 48-57: the resumption after server.get_server_info, its handler
\* (50-51) and the await of server.hello.
AfterServerInfo ==
    /\ Resumed("server.get_server_info")
    /\ Await("server.hello", NoArgs,
             <<IF ret = "ok" THEN Stdout("server_info") ELSE Stdout("server_info_error"),
               Stdout("testing_hello")>>)
    /\ UNCHANGED <<retval, server, client_service, square_result, outcome,
                   served, exit_code>>

AfterHello_NoFallback ==
    /\ Resumed("server.hello")
    /\ IF ret = "ok"
         THEN Await("server.get_time", NoArgs, <<Stdout("hello_response")>>)
         ELSE Register(<<Stdout("hello_service_error")>>)
    /\ UNCHANGED <<retval, server, client_service, square_result, outcome,
                   served, exit_code>>

\* Lines 57-69: the resumption after the direct server.hello: on success the
\* await of server.get_time, on an exception the handler at line 64.
AfterHello ==
    /\ Resumed("server.hello")
    /\ IF ret = "ok"
         THEN Await("server.get_time", NoArgs, <<Stdout("hello_response")>>)
         ELSE Fallback
    /\ UNCHANGED <<retval, server, client_service, square_result, outcome,
                   served, exit_code>>

AfterGetTime_NoFallback ==
    /\ Resumed("server.get_time")
    /\ IF ret = "ok"
         THEN Register(<<Stdout("server_time")>>)
         ELSE Register(<<Stdout("hello_service_error")>>)
    /\ UNCHANGED <<retval, server, client_service, square_result, outcome,
                   served, exit_code>>

\* Lines 61-69 and 76-78: the resumption after server.get_time: on success
\* the registration step, on an exception the same handler at line 64.
AfterGetTime ==
    /\ Resumed("server.get_time")
    /\ IF ret = "ok"
         THEN Register(<<Stdout("server_time")>>)
         ELSE Fallback
    /\ UNCHANGED <<retval, server, client_service, square_result, outcome,
                   served, exit_code>>

\* Lines 69-78: the resumption after server.get_service("hello-world"): on
\* success the await of hello on the returned service, on an exception the
\* inner handler (72-73) and the registration step.
AfterGetService ==
    /\ Resumed("server.get_service")
    /\ IF ret = "ok"
         THEN Await("hello_service.hello", NoArgs, <<>>)
         ELSE Register(<<Stdout("hello_via_get_service_error")>>)
    /\ UNCHANGED <<retval, server, client_service, square_result, outcome,
                   served, exit_code>>

AfterHelloViaService_Retry ==
    /\ Resumed("hello_service.hello")
    /\ IF ret = "ok"
         THEN Register(<<Stdout("hello_response_via_service")>>)
         ELSE Await("server.get_service", NoArgs,
                    <<Stdout("hello_via_get_service_error")>>)
    /\ UNCHANGED <<retval, server, client_service, square_result, outcome,
                   served, exit_code>>

\* Lines 70-78: the resumption after hello_service.hello, its handler
\* (72-73) and the registration step.
AfterHelloViaService ==
    /\ Resumed("hello_service.hello")
    /\ Register(<<IF ret = "ok" THEN Stdout("hello_response_via_service")
                                ELSE Stdout("hello_via_get_service_error")>>)
    /\ UNCHANGED <<retval, server, client_service, square_result, outcome,
                   served, exit_code>>

AfterRegister_CallAnyway ==
    /\ Resumed("server.register_service")
    /\ client_service' = [bound |-> TRUE, fields |-> ServiceFields]
    /\ Await("client_service.compute_square", <<7>>,
             <<IF ret = "ok" THEN Stdout("service_registered")
                             ELSE Stdout("service_registration_error")>>)
    /\ UNCHANGED <<retval, server, square_result, outcome, served, exit_code>>

\* Lines 78-109: the resumption after server.register_service.  An exception
\* of the call, or of reading client_service.id (line 93), goes to the handler
\* at lines 99-100 and the script ends; otherwise compute_square(7) is awaited.
AfterRegister ==
    /\ Resumed("server.register_service")
    /\ IF ret = "err"
         THEN Finish(<<Stdout("service_registration_error")>>)
              /\ UNCHANGED client_service
         ELSE LET f == retval[1].fields IN
              /\ client_service' = [bound |-> TRUE, fields |-> f]
              /\ IF "id" \notin f
                   THEN Finish(<<Stdout("service_registration_error")>>)
                   ELSE Await("client_service.compute_square", <<7>>,
                              <<Stdout("service_registered")>>)
    /\ UNCHANGED <<retval, server, square_result, outcome, served, exit_code>>

\* Lines 96-109: the resumption after client_service.compute_square(7), the
\* handler at lines 99-100, and the end of the coroutine.
AfterComputeSquare ==
    /\ Resumed("client_service.compute_square")
    /\ IF ret = "ok"
         THEN /\ square_result' = retval[1].value
              /\ Finish(<<Stdout("square_7")>>)
         ELSE /\ UNCHANGED square_result
              /\ Finish(<<Stdout("service_registration_error")>>)
    /\ UNCHANGED <<retval, server, client_service, outcome, served, exit_code>>

\* Lines 111-118: the exit code from the coroutine's return value.
Main ==
    /\ pc = "returned"
    /\ IF success = "True"
         THEN /\ trace' = Append(trace, Stdout("test_passed"))
              /\ exit_code' = Some(0)
         ELSE /\ trace' = Append(trace, Stdout("test_failed"))
              /\ exit_code' = Some(1)
    /\ pc' = "exited"
    /\ UNCHANGED <<pending, ret, retval, server, client_service, square_result,
                   outcome, served, success>>

\* The steps of the task.
Step ==
    \/ Start
    \/ AfterConnect
    \/ AfterEcho
    \/ AfterServerInfo
    \/ AfterHello
    \/ AfterGetTime
    \/ AfterGetService
    \/ AfterHelloViaService
    \/ AfterRegister
    \/ AfterComputeSquare
    \/ Main

Next ==
    \/ Step
    \/ \E c \in pending : Respond(c)
    \/ \E n \in (-MaxN)..MaxN : RemoteInvoke(n)

Spec == Init /\ [][Next]_vars

\* asyncio.run drives the task whenever it can run, and every issued call is
\* eventually answered by the environment.
FairSpec ==
    /\ Spec
    /\ WF_vars(Step)
    /\ WF_vars(\E c \in pending : Respond(c))

(***************************************************************************)
(* Properties.                                                             *)
(***************************************************************************)

CallsOf(site) == {i \in DOMAIN trace : trace[i].t = "call" /\ trace[i].what = site}
Invoked(site) == CallsOf(site) # {}
Count(site) == Cardinality(CallsOf(site))
Written(msg) == {i \in DOMAIN trace : trace[i] = Stdout(msg)}
Failed(site) == outcome[site] = "err"
Succeeded(site) == outcome[site] = "ok"
Exited == pc = "exited"
ConfigRead == server.bound /\ ConfigFields \subseteq server.config

\* C1 (as stated): the exit code is 0 if and only if connect_to_server
\* succeeded, whatever fails after the connection.
C1_ExitZeroIffConnected ==
    Exited => (exit_code = Some(0) <=> Succeeded("connect_to_server"))

\* C1 (amended): the exit code is 0 or 1, and it is 0 if and only if
\* connect_to_server succeeded and the reads of server.config.workspace and
\* server.config.client_id at lines 34-35, which no inner try guards, raised
\* nothing; no failure of an optional remote call, and no failure of the read
\* of client_service.id inside the registration step, makes it 1.
C1_ExitZeroIffOuterTryCompleted ==
    Exited => /\ exit_code \in {Some(0), Some(1)}
              /\ exit_code = Some(0) <=> (Succeeded("connect_to_server") /\ ConfigRead)

C1_Witness ==
    /\ Exited
    /\ exit_code = Some(0)
    /\ Failed("server.echo")
    /\ Failed("client_service.compute_square")

\* C2: if connect_to_server fails, no optional remote operation is ever
\* invoked, the coroutine returns having written the failure message, and the
\* exit code is 1.
C2_ConnectFailureIsFatal ==
    Failed("connect_to_server") =>
        /\ \A s \in OptionalSites : ~Invoked(s)
        /\ pending = {}
        /\ pc \in {"returned", "exited"} => Written("failed_to_connect_or_execute") # {}
        /\ Exited => exit_code = Some(1) /\ Written("test_failed") # {}

C2_Witness == Exited /\ Failed("connect_to_server") /\ exit_code = Some(1)

\* The message a failure at each call site is logged with.
ErrorMessage(site) ==
    CASE site = "server.echo" -> "echo_service_error"
      [] site = "server.get_server_info" -> "server_info_error"
      [] site \in {"server.hello", "server.get_time"} -> "hello_service_error"
      [] site \in {"server.get_service", "hello_service.hello"} ->
           "hello_via_get_service_error"
      [] site \in {"server.register_service", "client_service.compute_square"} ->
           "service_registration_error"

MainSteps == {"server.echo", "server.get_server_info", "server.hello",
              "server.register_service"}

IsMainStepCall(e) == e.t = "call" /\ e.what \in MainSteps

\* C3: in every finished run that got past the connection (connect_to_server
\* succeeded and the session's config was read), for every combination of
\* failures of the optional calls, echo, get_server_info, hello and
\* register_service were each invoked, exactly in that order, every failed
\* call was logged with its message, and the run ended normally.
C3_OptionalFailuresDoNotStopLaterSteps ==
    (Exited /\ Succeeded("connect_to_server") /\ ConfigRead) =>
        /\ LET calls == SelectSeq(trace, IsMainStepCall) IN
             /\ Len(calls) = 4
             /\ calls[1].what = "server.echo"
             /\ calls[2].what = "server.get_server_info"
             /\ calls[3].what = "server.hello"
             /\ calls[4].what = "server.register_service"
        /\ \A s \in OptionalSites : Failed(s) => Written(ErrorMessage(s)) # {}
        /\ Written("all_tests_completed") # {}

C3_Witness ==
    /\ Exited
    /\ Failed("server.echo")
    /\ Failed("server.get_server_info")
    /\ Failed("server.hello")
    /\ Failed("server.get_service")
    /\ Failed("server.register_service")

\* C4 (as stated): no failure message of the hello step is written before
\* the fallback lookup get_service("hello-world") has been attempted.
C4_FallbackBeforeAnyHelloFailureMessage ==
    \A i \in Written("hello_service_error") \cup Written("hello_via_get_service_error") :
        \E j \in CallsOf("server.get_service") : j < i

\* C4 (amended): if the direct hello call fails, its error is written first
\* (line 65) and the fallback lookup get_service("hello-world") is attempted
\* right after it; only the fallback's own failure message (line 73) is never
\* written before the lookup has been attempted.
C4_FallbackAfterFirstMessageBeforeLast ==
    /\ (Failed("server.hello") /\ pc # "server.hello") => Invoked("server.get_service")
    /\ \A j \in CallsOf("server.get_service") :
         j > 1 /\ trace[j - 1] = Stdout("hello_service_error")
    /\ \A i \in Written("hello_service_error") :
         i < Len(trace) /\ trace[i + 1] = Call("server.get_service", NoArgs)
    /\ \A i \in Written("hello_via_get_service_error") :
         \E j \in CallsOf("server.get_service") : j < i

C4_Witness ==
    /\ Failed("server.hello")
    /\ Written("hello_via_get_service_error") # {}
    /\ Exited

\* The direct path of the hello step is over.
DirectPathOver == pc \notin {"start", "connect_to_server", "server.echo",
                             "server.get_server_info", "server.hello",
                             "server.get_time"}

\* C5: the fallback lookup is invoked only if the direct hello or the direct
\* get_time failed, and once the direct path is over it has been invoked if
\* either failed (in a run that reached the hello step); hello on the
\* returned service is invoked exactly when the lookup succeeded.
C5_FallbackIffDirectPathFailed ==
    /\ Invoked("server.get_service") =>
         (Failed("server.hello") \/ Failed("server.get_time"))
    /\ (DirectPathOver /\ (Failed("server.hello") \/ Failed("server.get_time"))) =>
         Invoked("server.get_service")
    /\ (Succeeded("server.hello") /\ Succeeded("server.get_time")) =>
         (~Invoked("server.get_service") /\ ~Invoked("hello_service.hello"))
    /\ Invoked("hello_service.hello") => Succeeded("server.get_service")
    /\ (Succeeded("server.get_service") /\ pc # "server.get_service") =>
         Invoked("hello_service.hello")

C5_Witness ==
    /\ Succeeded("server.hello")
    /\ Failed("server.get_time")
    /\ Invoked("hello_service.hello")

\* C6: at most one remote call is outstanding in every reachable state, and
\* a call is issued only when no earlier call is still unanswered.
C6_CallsAreSequential ==
    /\ [](Cardinality(pending) <= 1)
    /\ [][(pending' \ pending # {}) =>
            (pending = {} /\ ret # "none" /\ Cardinality(pending') = 1)
            \/ (pc = "start" /\ pending = {})]_vars

C6_Witness ==
    /\ Cardinality(pending) = 1
    /\ Invoked("hello_service.hello")
    /\ Len(SelectSeq(trace, LAMBDA e : e.t = "call")) >= 5

\* C7: every call site is invoked at most once in a run, so hello is invoked
\* at most twice (directly and through the hello-world service) and every
\* other operation at most once.
C7_NoRetries ==
    /\ \A s \in Sites : Count(s) <= 1
    /\ Count("server.hello") + Count("hello_service.hello") <= 2

C7_Witness ==
    /\ Exited
    /\ Count("server.hello") + Count("hello_service.hello") = 2
    /\ Count("server.get_service") = 1

\* C8: when the call is routed to the registered handler, compute_square(7)
\* yields 49, and every invocation the handler serves returns the square of
\* its argument.
C8_SquareOfSevenIs49 ==
    /\ square_result # None => square_result = Some(49)
    /\ Succeeded("client_service.compute_square") => [arg |-> 7, result |-> 49] \in served
    /\ \A r \in served : r.result = r.arg * r.arg

C8_Witness ==
    /\ square_result = Some(49)
    /\ \E r \in served : r.arg < 0
    /\ \E r \in served : r.arg > 1 /\ r.arg < 7

\* C9: compute_square is invoked only after register_service succeeded, and
\* the direct get_time only after the direct hello succeeded.
C9_SecondCallOnlyAfterFirstSucceeded ==
    /\ Invoked("client_service.compute_square") =>
         /\ Succeeded("server.register_service")
         /\ \A i \in CallsOf("client_service.compute_square") :
              \E j \in CallsOf("server.register_service") : j < i
    /\ Failed("server.register_service") => ~Invoked("client_service.compute_square")
    /\ Invoked("server.get_time") =>
         /\ Succeeded("server.hello")
         /\ \A i \in CallsOf("server.get_time") :
              \E j \in CallsOf("server.hello") : j < i
    /\ Failed("server.hello") => ~Invoked("server.get_time")

C9_Witness ==
    /\ Exited
    /\ Invoked("client_service.compute_square")
    /\ Invoked("server.get_time")

\* C10: when every issued call is eventually answered, the run eventually
\* exits with code 0 or 1; and a run exits only when every call it issued has
\* been answered, so an unanswered call keeps it from ever exiting.
C10_TerminatesIffCallsAnswered ==
    /\ <>Exited
    /\ [](Exited => /\ exit_code \in {Some(0), Some(1)}
                    /\ pending = {}
                    /\ \A s \in Sites : Invoked(s) => outcome[s] # "none")
    /\ [](pending # {} => ~ENABLED Step)

C10_Witness ==
    /\ Exited
    /\ exit_code = Some(0)
    /\ Invoked("hello_service.hello")
    /\ Invoked("client_service.compute_square")

====
